---- MODULE Spec2Model ----
(***************************************************************************)
(* Model of the assistant bot with persistent storage (task1/task1.py):    *)
(* field validators, Record, AddressBook, save_data / load_data, the       *)
(* command handlers behind input_error, the main loop, and the birthday    *)
(* arithmetic of days_to_birthday and get_upcoming_birthdays.              *)
(*                                                                         *)
(* Strings are sequences of one-character strings, so that strip(), the    *)
(* digit filter of Phone and the DD.MM.YYYY parser are computed as the     *)
(* code computes them.  An absent value (None) is the empty sequence and   *)
(* a present one a one-element sequence.  A raised exception is the "exc"  *)
(* field of an operator's result ("none" when nothing was raised).         *)
(***************************************************************************)
EXTENDS Integers, Sequences, FiniteSets, TLC

VARIABLES book, files, dirs, pc, result

vars == <<book, files, dirs, pc, result>>

(***************************************************************************)
(* Bounds of the model.                                                    *)
(***************************************************************************)
\* Longest phone list of a Record: edit_phone can repeat a value and
\* add_phone then adds it again, so the lists of the code grow without end.
MaxPhones == 2

(***************************************************************************)
(* Characters and strings.                                                 *)
(***************************************************************************)
DigitChars == <<"0", "1", "2", "3", "4", "5", "6", "7", "8", "9">>

IsDigit(c) == \E i \in 1..Len(DigitChars) : DigitChars[i] = c

IsSpace(c) == c = " "

\* The value of a digit character.
DigitVal(c) == (CHOOSE i \in 1..Len(DigitChars) : DigitChars[i] = c) - 1

RECURSIVE LStrip(_)
LStrip(s) == IF s # <<>> /\ IsSpace(Head(s)) THEN LStrip(Tail(s)) ELSE s

RECURSIVE RStrip(_)
RStrip(s) ==
    IF s # <<>> /\ IsSpace(s[Len(s)]) THEN RStrip(SubSeq(s, 1, Len(s) - 1)) ELSE s

\* str.strip()
Strip(s) == RStrip(LStrip(s))

\* re.sub(r'\D', '', phone)
DigitsOnly(s) == SelectSeq(s, IsDigit)

\* int() of a string of digits.
RECURSIVE ToInt(_)
ToInt(s) == IF s = <<>> THEN 0 ELSE 10 * ToInt(SubSeq(s, 1, Len(s) - 1)) + DigitVal(s[Len(s)])

AllDigits(s) == \A i \in 1..Len(s) : IsDigit(s[i])

\* The fields of s between the occurrences of sep (str.split(sep)).
RECURSIVE Split(_, _)
Split(s, sep) ==
    IF \A i \in 1..Len(s) : s[i] # sep THEN <<s>>
    ELSE LET k == CHOOSE i \in 1..Len(s) : s[i] = sep /\ \A j \in 1..(i - 1) : s[j] # sep
         IN  <<SubSeq(s, 1, k - 1)>> \o Split(SubSeq(s, k + 1, Len(s)), sep)

\* A number printed with at least `width` digits, zero padded (%02d, %04d).
RECURSIVE ZeroPad(_, _)
ZeroPad(n, width) ==
    IF width <= 1 /\ n < 10 THEN <<DigitChars[n + 1]>>
    ELSE ZeroPad(n \div 10, width - 1) \o <<DigitChars[(n % 10) + 1]>>

(***************************************************************************)
(* Field, Name, Phone, Birthday.                                           *)
(***************************************************************************)
\* Name.__init__: the stripped value, ValueError when nothing is left.
Name(value) ==
    IF value = <<>> \/ Strip(value) = <<>>
    THEN [exc |-> "ValueError", value |-> <<>>]
    ELSE [exc |-> "none", value |-> Strip(value)]

\* Phone._is_valid_phone: exactly 10 digits once the non-digits are removed.
is_valid_phone(phone) ==
    LET digits_only == DigitsOnly(phone)
    IN  Len(digits_only) = 10 /\ AllDigits(digits_only)

\* A Phone that keeps the digits of the value only.
Phone_digits_only(value) ==
    IF ~is_valid_phone(value)
    THEN [exc |-> "ValueError", value |-> <<>>]
    ELSE [exc |-> "none", value |-> DigitsOnly(value)]

\* Phone.__init__: the value as given, ValueError unless it is valid.
Phone(value) ==
    IF ~is_valid_phone(value)
    THEN [exc |-> "ValueError", value |-> <<>>]
    ELSE [exc |-> "none", value |-> value]

IsLeap(y) == (y % 4 = 0 /\ y % 100 # 0) \/ y % 400 = 0

DaysInMonth(y, m) ==
    IF m = 2 THEN (IF IsLeap(y) THEN 29 ELSE 28)
    ELSE IF m \in {4, 6, 9, 11} THEN 30 ELSE 31

\* datetime.strptime(text, "%d.%m.%Y"): day and month of one or two digits,
\* a year of four, and a date of the calendar; "ValueError" otherwise.
Strptime(text) ==
    LET f == Split(text, ".")
        bad == [exc |-> "ValueError", date |-> [y |-> 0, m |-> 0, d |-> 0]]
    IN  IF Len(f) # 3 THEN bad
        ELSE IF ~(Len(f[1]) \in {1, 2} /\ Len(f[2]) \in {1, 2} /\ Len(f[3]) = 4) THEN bad
        ELSE IF ~(AllDigits(f[1]) /\ AllDigits(f[2]) /\ AllDigits(f[3])) THEN bad
        ELSE LET d == ToInt(f[1])
                 m == ToInt(f[2])
                 y == ToInt(f[3])
             IN  IF y >= 1 /\ m \in 1..12 /\ d >= 1 /\ d <= DaysInMonth(y, m)
                 THEN [exc |-> "none", date |-> [y |-> y, m |-> m, d |-> d]]
                 ELSE bad

\* date.strftime("%d.%m.%Y")
Strftime(date) ==
    ZeroPad(date.d, 2) \o <<".">> \o ZeroPad(date.m, 2) \o <<".">> \o ZeroPad(date.y, 4)

\* Birthday.__init__: the parsed date and its canonical string.
Birthday(value) ==
    LET parsed == Strptime(Strip(value))
    IN  IF parsed.exc # "none"
        THEN [exc |-> "ValueError", date |-> parsed.date, value |-> <<>>]
        ELSE [exc |-> "none", date |-> parsed.date, value |-> Strftime(parsed.date)]

(***************************************************************************)
(* Record.  phones holds the value of each Phone, in order; birthday is    *)
(* <<>> (None) or <<[date, value]>>.                                       *)
(***************************************************************************)
\* Record.__init__
Record(name) ==
    LET n == Name(name)
    IN  [exc |-> n.exc, rec |-> [name |-> n.value, phones |-> <<>>, birthday |-> <<>>]]

\* Record.add_phone
Record_add_phone(rec, phone) ==
    LET phone_obj == Phone(phone)
    IN  IF phone_obj.exc # "none" THEN [exc |-> "ValueError", rec |-> rec]
        ELSE IF \E i \in 1..Len(rec.phones) : rec.phones[i] = phone_obj.value
        THEN [exc |-> "ValueError", rec |-> rec]
        ELSE [exc |-> "none", rec |-> [rec EXCEPT !.phones = Append(@, phone_obj.value)]]

\* The position of the first phone equal to `phone`, 0 when there is none.
FirstIndex(phones, phone) ==
    IF \E i \in 1..Len(phones) : phones[i] = phone
    THEN CHOOSE i \in 1..Len(phones) :
            phones[i] = phone /\ \A j \in 1..(i - 1) : phones[j] # phone
    ELSE 0

\* Record.remove_phone
Record_remove_phone(rec, phone) ==
    LET i == FirstIndex(rec.phones, phone)
    IN  IF i = 0 THEN [exc |-> "ValueError", rec |-> rec]
        ELSE [exc |-> "none",
              rec |-> [rec EXCEPT !.phones =
                          SubSeq(@, 1, i - 1) \o SubSeq(@, i + 1, Len(@))]]

\* edit_phone whose loop has no `return`: every phone equal to old_phone
\* is replaced.
Record_edit_phone_all(rec, old_phone, new_phone) ==
    LET new_phone_obj == Phone(new_phone)
        i == FirstIndex(rec.phones, old_phone)
    IN  IF new_phone_obj.exc # "none" THEN [exc |-> "ValueError", rec |-> rec]
        ELSE IF i = 0 THEN [exc |-> "ValueError", rec |-> rec]
        ELSE [exc |-> "none",
              rec |-> [rec EXCEPT !.phones =
                          [k \in 1..Len(@) |->
                              IF @[k] = old_phone THEN new_phone_obj.value ELSE @[k]]]]

\* edit_phone that stores new_phone without building a Phone from it.
Record_edit_phone_unvalidated(rec, old_phone, new_phone) ==
    LET i == FirstIndex(rec.phones, old_phone)
    IN  IF i = 0 THEN [exc |-> "ValueError", rec |-> rec]
        ELSE [exc |-> "none", rec |-> [rec EXCEPT !.phones[i] = new_phone]]

\* Record.edit_phone
Record_edit_phone(rec, old_phone, new_phone) ==
    LET new_phone_obj == Phone(new_phone)
        i == FirstIndex(rec.phones, old_phone)
    IN  IF new_phone_obj.exc # "none" THEN [exc |-> "ValueError", rec |-> rec]
        ELSE IF i = 0 THEN [exc |-> "ValueError", rec |-> rec]
        ELSE [exc |-> "none", rec |-> [rec EXCEPT !.phones[i] = new_phone_obj.value]]

\* Record.add_birthday
Record_add_birthday(rec, birthday) ==
    LET b == Birthday(birthday)
    IN  IF b.exc # "none" THEN [exc |-> "ValueError", rec |-> rec]
        ELSE [exc |-> "none",
              rec |-> [rec EXCEPT !.birthday = <<[date |-> b.date, value |-> b.value]>>]]

(***************************************************************************)
(* AddressBook(UserDict).  data is the dict in insertion order: a sequence *)
(* of entries [key, rec].                                                  *)
(***************************************************************************)
EmptyBook == <<>>

\* The position of `key` in the dict, 0 when it is not a key.
KeyIndex(data, key) ==
    IF \E i \in 1..Len(data) : data[i].key = key
    THEN CHOOSE i \in 1..Len(data) : data[i].key = key
    ELSE 0

\* data[key] = rec: replaces the value of an existing key, else inserts last.
DictSet(data, key, rec) ==
    LET i == KeyIndex(data, key)
    IN  IF i = 0 THEN Append(data, [key |-> key, rec |-> rec])
        ELSE [data EXCEPT ![i] = [key |-> key, rec |-> rec]]

\* del data[key]
DictDel(data, key) ==
    LET i == KeyIndex(data, key)
    IN  SubSeq(data, 1, i - 1) \o SubSeq(data, i + 1, Len(data))

\* str.lower() on the letters of the model.
Lower(str) == [i \in 1..Len(str) |-> IF str[i] = "B" THEN "b" ELSE str[i]]

\* add_record storing the Record under the lower-cased name.
AddressBook_add_record_lower(data, record) ==
    IF KeyIndex(data, Lower(record.name)) # 0
    THEN [exc |-> "ValueError", book |-> data]
    ELSE [exc |-> "none", book |-> DictSet(data, Lower(record.name), record)]

\* add_record without the check for an existing name.
AddressBook_add_record_overwrite(data, record) ==
    [exc |-> "none", book |-> DictSet(data, record.name, record)]

\* AddressBook.add_record
AddressBook_add_record(data, record) ==
    IF KeyIndex(data, record.name) # 0
    THEN [exc |-> "ValueError", book |-> data]
    ELSE [exc |-> "none", book |-> DictSet(data, record.name, record)]

\* AddressBook.find: <<>> (None) or <<record>>.
AddressBook_find(data, name) ==
    LET i == KeyIndex(data, name)
    IN  IF i = 0 THEN <<>> ELSE <<data[i].rec>>

\* AddressBook.delete
AddressBook_delete(data, name) ==
    IF KeyIndex(data, name) = 0
    THEN [exc |-> "ValueError", book |-> data]
    ELSE [exc |-> "none", book |-> DictDel(data, name)]

\* The Record stored in the book changed in place by one of its methods:
\* the entry that holds it now holds the changed Record.
WithRecord(data, i, rec) == [data EXCEPT ![i].rec = rec]

(***************************************************************************)
(* The command handlers and the input_error decorator.  A handler's body   *)
(* runs statement by statement: what it changed before it raised stays     *)
(* changed.  The result is [exc, book, ret].                                *)
(***************************************************************************)
Raised(exc, data) == [exc |-> exc, book |-> data, ret |-> ""]

Returned(data, message) == [exc |-> "none", book |-> data, ret |-> message]

\* input_error: the handler's return value, or one line naming the failure.
input_error(res) ==
    [book |-> res.book,
     ret  |-> CASE res.exc = "none" -> res.ret
                [] res.exc = "KeyError" -> "Contact not found"
                [] res.exc = "ValueError" -> "Invalid input"
                [] res.exc = "IndexError" -> "Not enough arguments"
                [] OTHER -> "An error occurred"]

\* add_contact, lines 328-331: `if phone: record.add_phone(phone)` on the
\* Record held by entry i (the last entry for a Record just inserted), then
\* `return message`.
add_contact_phone(data, i, phone, message) ==
    IF phone = <<>> THEN Returned(data, message)
    ELSE LET p == Record_add_phone(data[i].rec, phone)
         IN  IF p.exc # "none" THEN Raised(p.exc, data)
             ELSE Returned(WithRecord(data, i, p.rec), message)

\* The body of add_contact.
add_contact_body(args, data) ==
    IF Len(args) < 2 THEN Raised("IndexError", data)
    ELSE LET name == args[1]
             phone == args[2]
             record == AddressBook_find(data, name)
         IN  IF record = <<>>
             THEN LET r == Record(name)
                  IN  IF r.exc # "none" THEN Raised(r.exc, data)
                      ELSE LET added == AddressBook_add_record(data, r.rec)
                           IN  IF added.exc # "none" THEN Raised(added.exc, added.book)
                               ELSE add_contact_phone(added.book, Len(added.book),
                                        phone, "Contact added.")
             ELSE add_contact_phone(data, KeyIndex(data, name), phone, "Contact updated.")

\* @input_error add_contact
add_contact(args, data) == input_error(add_contact_body(args, data))

\* The body of change_contact.
change_contact_body(args, data) ==
    IF Len(args) < 3 THEN Raised("IndexError", data)
    ELSE LET name == args[1]
             old_phone == args[2]
             new_phone == args[3]
             i == KeyIndex(data, name)
         IN  IF AddressBook_find(data, name) = <<>> THEN Raised("KeyError", data)
             ELSE LET e == Record_edit_phone(data[i].rec, old_phone, new_phone)
                  IN  IF e.exc # "none" THEN Raised(e.exc, data)
                      ELSE Returned(WithRecord(data, i, e.rec), "Contact updated.")

\* @input_error change_contact
change_contact(args, data) == input_error(change_contact_body(args, data))

\* The body of add_birthday (the command).
add_birthday_body(args, data) ==
    IF Len(args) < 2 THEN Raised("IndexError", data)
    ELSE LET name == args[1]
             birthday == args[2]
             i == KeyIndex(data, name)
         IN  IF AddressBook_find(data, name) = <<>> THEN Raised("KeyError", data)
             ELSE LET b == Record_add_birthday(data[i].rec, birthday)
                  IN  IF b.exc # "none" THEN Raised(b.exc, data)
                      ELSE Returned(WithRecord(data, i, b.rec), "Birthday added.")

\* @input_error add_birthday
add_birthday(args, data) == input_error(add_birthday_body(args, data))

\* The one-line failure messages input_error returns.
FailureMessages ==
    {"Contact not found", "Invalid input", "Not enough arguments", "An error occurred"}

(***************************************************************************)
(* pickle.  The byte stream of a pickled AddressBook is a sequence of      *)
(* tokens [op, n, s]: the object graph written depth first and closed by   *)
(* STOP, as pickle writes it.  Loads reads one object back, or fails as    *)
(* pickle.load fails on an empty, cut or foreign stream.                   *)
(***************************************************************************)
Tok(op, n, s) == [op |-> op, n |-> n, s |-> s]

DumpBirthday(birthday) ==
    IF birthday = <<>> THEN <<Tok("NONE", 0, <<>>)>>
    ELSE <<Tok("Birthday", 0, birthday[1].value),
           Tok("INT", birthday[1].date.y, <<>>),
           Tok("INT", birthday[1].date.m, <<>>),
           Tok("INT", birthday[1].date.d, <<>>)>>

DumpRecord(entry) ==
    <<Tok("KEY", 0, entry.key), Tok("Record", 0, <<>>), Tok("Name", 0, entry.rec.name),
      Tok("LIST", Len(entry.rec.phones), <<>>)>>
        \o [i \in 1..Len(entry.rec.phones) |-> Tok("Phone", 0, entry.rec.phones[i])]
        \o DumpBirthday(entry.rec.birthday)

RECURSIVE DumpEntries(_)
DumpEntries(data) ==
    IF data = <<>> THEN <<>> ELSE DumpRecord(Head(data)) \o DumpEntries(Tail(data))

\* pickle.dumps(book)
Dumps(data) ==
    <<Tok("AddressBook", Len(data), <<>>)>> \o DumpEntries(data) \o <<Tok("STOP", 0, <<>>)>>

\* The token at pos, EOF past the end of the stream.
ReadAt(stream, pos) == IF pos <= Len(stream) THEN stream[pos] ELSE Tok("EOF", 0, <<>>)

ParseFailed == [ok |-> FALSE, val |-> <<>>, pos |-> 0]

RECURSIVE ParsePhones(_, _, _)
ParsePhones(stream, pos, n) ==
    IF n = 0 THEN [ok |-> TRUE, val |-> <<>>, pos |-> pos]
    ELSE IF ReadAt(stream, pos).op # "Phone" THEN ParseFailed
    ELSE LET rest == ParsePhones(stream, pos + 1, n - 1)
         IN  IF ~rest.ok THEN ParseFailed
             ELSE [ok |-> TRUE, val |-> <<stream[pos].s>> \o rest.val, pos |-> rest.pos]

ParseBirthday(stream, pos) ==
    IF ReadAt(stream, pos).op = "NONE" THEN [ok |-> TRUE, val |-> <<>>, pos |-> pos + 1]
    ELSE IF /\ ReadAt(stream, pos).op = "Birthday"
            /\ \A k \in 1..3 : ReadAt(stream, pos + k).op = "INT"
    THEN [ok |-> TRUE,
          val |-> <<[date |-> [y |-> stream[pos + 1].n, m |-> stream[pos + 2].n,
                               d |-> stream[pos + 3].n],
                     value |-> stream[pos].s]>>,
          pos |-> pos + 4]
    ELSE ParseFailed

ParseRecord(stream, pos) ==
    IF ~(/\ ReadAt(stream, pos).op = "KEY"
         /\ ReadAt(stream, pos + 1).op = "Record"
         /\ ReadAt(stream, pos + 2).op = "Name"
         /\ ReadAt(stream, pos + 3).op = "LIST")
    THEN ParseFailed
    ELSE LET phones == ParsePhones(stream, pos + 4, stream[pos + 3].n)
         IN  IF ~phones.ok THEN ParseFailed
             ELSE LET birthday == ParseBirthday(stream, phones.pos)
                  IN  IF ~birthday.ok THEN ParseFailed
                      ELSE [ok |-> TRUE,
                            val |-> [key |-> stream[pos].s,
                                     rec |-> [name |-> stream[pos + 2].s,
                                              phones |-> phones.val,
                                              birthday |-> birthday.val]],
                            pos |-> birthday.pos]

RECURSIVE ParseEntries(_, _, _)
ParseEntries(stream, pos, n) ==
    IF n = 0 THEN [ok |-> TRUE, val |-> <<>>, pos |-> pos]
    ELSE LET first == ParseRecord(stream, pos)
         IN  IF ~first.ok THEN ParseFailed
             ELSE LET rest == ParseEntries(stream, first.pos, n - 1)
                  IN  IF ~rest.ok THEN ParseFailed
                      ELSE [ok |-> TRUE, val |-> <<first.val>> \o rest.val, pos |-> rest.pos]

\* pickle.loads(stream): the object (an AddressBook, or something else:
\* isBook FALSE), or the error raised: EOFError on an empty stream,
\* UnpicklingError on a cut or foreign one.
Loads(stream) ==
    LET failed == [exc |-> "UnpicklingError", isBook |-> FALSE, book |-> <<>>]
    IN  IF stream = <<>> THEN [exc |-> "EOFError", isBook |-> FALSE, book |-> <<>>]
        ELSE IF stream[1].op = "AddressBook"
        THEN LET entries == ParseEntries(stream, 2, stream[1].n)
             IN  IF entries.ok /\ ReadAt(stream, entries.pos).op = "STOP"
                 THEN [exc |-> "none", isBook |-> TRUE, book |-> entries.val]
                 ELSE failed
        ELSE IF stream[1].op = "LIST" /\ stream[1].n = 0 /\ ReadAt(stream, 2).op = "STOP"
        THEN [exc |-> "none", isBook |-> FALSE, book |-> <<>>]
        ELSE failed

(***************************************************************************)
(* save_data and load_data.  fs is [files, dirs]; fault is what the        *)
(* environment does to this call: "none", "open" (open() is refused:       *)
(* PermissionError), "io" (a read or write fails: OSError), "pickle"       *)
(* (pickle raises PickleError), "other" (any other Exception).             *)
(***************************************************************************)
\* The file main() uses, and the file in a directory that is not there
\* demo_persistence.py saves to.
DefaultFile == "addressbook.pkl"
NestedFile == "test_dir/nested_book.pkl"
Paths == {DefaultFile, NestedFile}

ParentDir(path) == IF path = NestedFile THEN "test_dir" ELSE "."

Faults == {"none", "open", "io", "pickle", "other"}

OSErrors == {"OSError", "PermissionError", "FileNotFoundError"}
PickleErrors == {"PickleError", "PicklingError", "UnpicklingError"}

\* The exception a fault raises.
FaultExc(fault) ==
    CASE fault = "open" -> "PermissionError"
      [] fault = "io" -> "OSError"
      [] fault = "pickle" -> "PickleError"
      [] OTHER -> "RecursionError"

\* How much of the stream is in the file when the write is cut short.
Cuts(stream) == {0, Len(stream) \div 2}

\* The try block of save_data with the file opened "ab": what is written
\* follows what the file held.
save_data_try_append(data, filename, fs, fault, cut) ==
    LET old == IF fs.files[filename] = <<>> THEN <<>> ELSE fs.files[filename][1]
    IN  IF ParentDir(filename) \notin fs.dirs
        THEN [exc |-> "FileNotFoundError", files |-> fs.files]
        ELSE IF fault = "open" THEN [exc |-> FaultExc(fault), files |-> fs.files]
        ELSE IF fault # "none"
        THEN [exc |-> FaultExc(fault),
              files |-> [fs.files EXCEPT ![filename] = <<old \o SubSeq(Dumps(data), 1, cut)>>]]
        ELSE [exc |-> "none",
              files |-> [fs.files EXCEPT ![filename] = <<old \o Dumps(data)>>]]

\* save_data, the try block: open(filename, "wb") and pickle.dump(book, f),
\* with `cut` tokens written when dump fails.  [exc, files].
save_data_try(data, filename, fs, fault, cut) ==
    IF ParentDir(filename) \notin fs.dirs
    THEN [exc |-> "FileNotFoundError", files |-> fs.files]
    ELSE IF fault = "open" THEN [exc |-> FaultExc(fault), files |-> fs.files]
    ELSE IF fault # "none"
    THEN [exc |-> FaultExc(fault),
          files |-> [fs.files EXCEPT ![filename] = <<SubSeq(Dumps(data), 1, cut)>>]]
    ELSE [exc |-> "none", files |-> [fs.files EXCEPT ![filename] = <<Dumps(data)>>]]

\* save_data without its last handler, `except Exception`.
save_data_no_catch_all(data, filename, fs, fault, cut) ==
    LET t == save_data_try(data, filename, fs, fault, cut)
    IN  IF t.exc = "none" THEN [exc |-> "none", ret |-> "True", files |-> t.files]
        ELSE IF t.exc \in OSErrors \cup PickleErrors
        THEN [exc |-> "none", ret |-> "False", files |-> t.files]
        ELSE [exc |-> t.exc, ret |-> "", files |-> t.files]

\* save_data: [exc raised to the caller, ret, files].
save_data(data, filename, fs, fault, cut) ==
    LET t == save_data_try(data, filename, fs, fault, cut)
    IN  IF t.exc = "none" THEN [exc |-> "none", ret |-> "True", files |-> t.files]
        ELSE IF t.exc \in OSErrors \cup PickleErrors
        THEN [exc |-> "none", ret |-> "False", files |-> t.files]
        ELSE [exc |-> "none", ret |-> "False", files |-> t.files]

\* load_data, the try block: open(filename, "rb"), pickle.load(f) and the
\* isinstance check.  [exc, isBook, book].
load_data_try(filename, fs, fault) ==
    IF ParentDir(filename) \notin fs.dirs \/ fs.files[filename] = <<>>
    THEN [exc |-> "FileNotFoundError", isBook |-> FALSE, book |-> <<>>]
    ELSE IF fault # "none" THEN [exc |-> FaultExc(fault), isBook |-> FALSE, book |-> <<>>]
    ELSE Loads(fs.files[filename][1])

\* load_data without the FileNotFoundError handler: the missing file is
\* reported like any other OSError.
load_data_no_first_run(filename, fs, fault) ==
    LET t == load_data_try(filename, fs, fault)
    IN  IF t.exc = "none" /\ t.isBook THEN [exc |-> "none", ret |-> "loaded", book |-> t.book]
        ELSE IF t.exc = "none" THEN [exc |-> "none", ret |-> "warning", book |-> EmptyBook]
        ELSE [exc |-> "none", ret |-> "error", book |-> EmptyBook]

\* load_data without its last handler, `except Exception`.
load_data_no_catch_all(filename, fs, fault) ==
    LET t == load_data_try(filename, fs, fault)
    IN  IF t.exc = "none" /\ t.isBook THEN [exc |-> "none", ret |-> "loaded", book |-> t.book]
        ELSE IF t.exc = "none" THEN [exc |-> "none", ret |-> "warning", book |-> EmptyBook]
        ELSE IF t.exc = "FileNotFoundError"
        THEN [exc |-> "none", ret |-> "first run", book |-> EmptyBook]
        ELSE IF t.exc \in OSErrors \cup PickleErrors
        THEN [exc |-> "none", ret |-> "error", book |-> EmptyBook]
        ELSE [exc |-> t.exc, ret |-> "", book |-> EmptyBook]

\* load_data: [exc raised to the caller, ret, book].  ret names the branch:
\* "loaded", "first run" (no file, nothing printed), "warning" (not an
\* AddressBook) or "error" (a message is printed).
load_data(filename, fs, fault) ==
    LET t == load_data_try(filename, fs, fault)
    IN  IF t.exc = "none" /\ t.isBook THEN [exc |-> "none", ret |-> "loaded", book |-> t.book]
        ELSE IF t.exc = "none" THEN [exc |-> "none", ret |-> "warning", book |-> EmptyBook]
        ELSE IF t.exc = "FileNotFoundError"
        THEN [exc |-> "none", ret |-> "first run", book |-> EmptyBook]
        ELSE IF t.exc \in OSErrors \cup PickleErrors
        THEN [exc |-> "none", ret |-> "error", book |-> EmptyBook]
        ELSE [exc |-> "none", ret |-> "error", book |-> EmptyBook]

(***************************************************************************)
(* Inputs.                                                                 *)
(***************************************************************************)
NameA == <<"a">>
NameB == <<"B">>

\* Names as a caller of Record(name) may give them: padded, blank, empty.
RawNames == {NameA, <<" ", "a", " ">>, NameB, <<" ">>, <<>>}

\* Names as parse_input gives them: split() leaves no whitespace.
TokNames == {NameA, NameB}

PhoneA == <<"1", "2", "3", "4", "5", "6", "7", "8", "9", "0">>
\* The digits of PhoneA, written with dashes.
PhoneADashed == <<"1", "2", "3", "-", "4", "5", "6", "-", "7", "8", "9", "0">>
PhoneShort == <<"1", "2", "3">>
PhoneLong == <<"1", "2", "3", "4", "5", "6", "7", "8", "9", "0", "1">>

ValidPhones == {PhoneA, PhoneADashed}
RawPhones == ValidPhones \cup {PhoneShort, PhoneLong}

BirthdayA == <<"1", "5", ".", "0", "6", ".", "1", "9", "9", "0">>
\* 15.6.1990: strptime takes a one-digit month, the canonical form is 15.06.1990.
BirthdayAShort == <<"1", "5", ".", "6", ".", "1", "9", "9", "0">>
BirthdayNoSuchDay == <<"3", "1", ".", "0", "2", ".", "2", "0", "2", "0">>
BirthdayDashes == <<"1", "5", "-", "0", "6", "-", "1", "9", "9", "0">>

RawBirthdays == {BirthdayA, BirthdayAShort, BirthdayNoSuchDay, BirthdayDashes}

\* Argument lists of the commands, too short ones included.
AddArgs ==
    {<<>>} \cup {<<n>> : n \in TokNames}
           \cup {<<n, p>> : n \in TokNames, p \in RawPhones}

ChangeArgs ==
    {<<n, p>> : n \in TokNames, p \in ValidPhones}
        \cup {<<n, p, q>> : n \in TokNames, p \in ValidPhones, q \in RawPhones}

BirthdayArgs ==
    {<<n>> : n \in TokNames} \cup {<<n, b>> : n \in TokNames, b \in RawBirthdays}

(***************************************************************************)
(* State.  book: the AddressBook's data.  files: the content of each path  *)
(* (<<>> when no file is there, else <<stream>>).  dirs: the directories   *)
(* that exist.  pc: where main() is.  result: the last call: the path and  *)
(* the I/O fault it met (save_data, load_data), what it raised to its      *)
(* caller and what it returned.                                            *)
(***************************************************************************)
Called(op, exc, ret) == [op |-> op, path |-> "", fault |-> "none", exc |-> exc, ret |-> ret]

CalledIO(op, path, fault, exc, ret) ==
    [op |-> op, path |-> path, fault |-> fault, exc |-> exc, ret |-> ret]

Init ==
    /\ book = EmptyBook
    /\ files = [p \in Paths |-> <<>>]
    /\ dirs = {"."}
    /\ pc = "start"
    /\ result = Called("none", "none", "")

Untouched == UNCHANGED <<files, dirs, pc>>

(***************************************************************************)
(* Calls of the Record and AddressBook methods.  A Record method is called *)
(* on the Record held by entry i of the book.                              *)
(***************************************************************************)
\* book.add_record(Record(name))
CallAddRecord(name) ==
    LET r == Record(name)
        added == AddressBook_add_record(book, r.rec)
    IN  /\ IF r.exc # "none"
           THEN /\ book' = book
                /\ result' = Called("Record", r.exc, "")
           ELSE /\ book' = added.book
                /\ result' = Called("add_record", added.exc, "")
        /\ Untouched

\* book.delete(name)
CallDelete(name) ==
    LET d == AddressBook_delete(book, name)
    IN  /\ book' = d.book
        /\ result' = Called("delete", d.exc, "")
        /\ Untouched

\* record.add_phone(phone)
CallAddPhone(i, phone) ==
    LET a == Record_add_phone(book[i].rec, phone)
    IN  /\ Len(a.rec.phones) <= MaxPhones
        /\ book' = WithRecord(book, i, a.rec)
        /\ result' = Called("add_phone", a.exc, "")
        /\ Untouched

\* record.remove_phone(phone)
CallRemovePhone(i, phone) ==
    LET r == Record_remove_phone(book[i].rec, phone)
    IN  /\ book' = WithRecord(book, i, r.rec)
        /\ result' = Called("remove_phone", r.exc, "")
        /\ Untouched

\* record.edit_phone(old_phone, new_phone)
CallEditPhone(i, old_phone, new_phone) ==
    LET e == Record_edit_phone(book[i].rec, old_phone, new_phone)
    IN  /\ book' = WithRecord(book, i, e.rec)
        /\ result' = Called("edit_phone", e.exc, "")
        /\ Untouched

\* record.add_birthday(birthday)
CallAddBirthday(i, birthday) ==
    LET b == Record_add_birthday(book[i].rec, birthday)
    IN  /\ book' = WithRecord(book, i, b.rec)
        /\ result' = Called("add_birthday", b.exc, "")
        /\ Untouched

(***************************************************************************)
(* Calls of the command handlers.                                          *)
(***************************************************************************)
\* The phone lists of the book are within the model's bound.
WithinBounds(data) == \A i \in 1..Len(data) : Len(data[i].rec.phones) <= MaxPhones

CmdAdd(args) ==
    LET r == add_contact(args, book)
    IN  /\ WithinBounds(r.book)
        /\ book' = r.book
        /\ result' = Called("add", "none", r.ret)
        /\ Untouched

CmdChange(args) ==
    LET r == change_contact(args, book)
    IN  /\ book' = r.book
        /\ result' = Called("change", "none", r.ret)
        /\ Untouched

CmdAddBirthday(args) ==
    LET r == add_birthday(args, book)
    IN  /\ book' = r.book
        /\ result' = Called("add-birthday", "none", r.ret)
        /\ Untouched

\* The Record and AddressBook methods and the command handlers, called in
\* any order on one AddressBook.
NextBook ==
    \/ \E name \in RawNames : CallAddRecord(name)
    \/ \E name \in TokNames : CallDelete(name)
    \/ \E i \in 1..Len(book), phone \in RawPhones : CallAddPhone(i, phone)
    \/ \E i \in 1..Len(book), phone \in ValidPhones : CallRemovePhone(i, phone)
    \/ \E i \in 1..Len(book), old_phone \in ValidPhones, new_phone \in RawPhones :
            CallEditPhone(i, old_phone, new_phone)
    \/ \E i \in 1..Len(book), birthday \in RawBirthdays : CallAddBirthday(i, birthday)
    \/ \E args \in AddArgs : CmdAdd(args)
    \/ \E args \in ChangeArgs : CmdChange(args)
    \/ \E args \in BirthdayArgs : CmdAddBirthday(args)

SpecBook == Init /\ [][NextBook]_vars


(***************************************************************************)
(* Calls of save_data and load_data, and what else writes the files.       *)
(***************************************************************************)
FS == [files |-> files, dirs |-> dirs]

\* The faults that can reach a call on `filename`: none when open() fails
\* first because the directory is not there; and the cuts a fault can leave.
FaultsAt(filename) == IF ParentDir(filename) \in dirs THEN Faults ELSE {"none"}

CutsAt(fault, stream) == IF fault \in {"none", "open"} THEN {0} ELSE Cuts(stream)

\* save_data(book, filename)
CallSave(filename, fault) ==
    \E cut \in CutsAt(fault, Dumps(book)) :
        LET r == save_data(book, filename, FS, fault, cut)
        IN  /\ files' = r.files
            /\ result' = CalledIO("save_data", filename, fault, r.exc, r.ret)
            /\ UNCHANGED <<book, dirs, pc>>

\* book = load_data(filename)
CallLoad(filename, fault) ==
    LET r == load_data(filename, FS, fault)
    IN  /\ book' = r.book
        /\ result' = CalledIO("load_data", filename, fault, r.exc, r.ret)
        /\ UNCHANGED <<files, dirs, pc>>

\* Streams that are no AddressBook: noise, and a pickled empty list.
ForeignStreams == {<<Tok("NOISE", 0, <<>>)>>, <<Tok("LIST", 0, <<>>), Tok("STOP", 0, <<>>)>>}

\* Something else writes the file: the corrupted or foreign file load_data
\* is written for.
OverwriteFile(filename, stream) ==
    /\ ParentDir(filename) \in dirs
    /\ files' = [files EXCEPT ![filename] = <<stream>>]
    /\ result' = Called("overwrite", "none", "")
    /\ UNCHANGED <<book, dirs, pc>>

\* No file has been written yet.
NoFiles == \A p \in Paths : files[p] = <<>>

\* The book is built by the Record and AddressBook methods.
NextBuild ==
    \/ \E name \in RawNames : CallAddRecord(name)
    \/ \E name \in TokNames : CallDelete(name)
    \/ \E i \in 1..Len(book), phone \in RawPhones : CallAddPhone(i, phone)
    \/ \E i \in 1..Len(book), phone \in ValidPhones : CallRemovePhone(i, phone)
    \/ \E i \in 1..Len(book), old_phone \in ValidPhones, new_phone \in RawPhones :
            CallEditPhone(i, old_phone, new_phone)
    \/ \E i \in 1..Len(book), birthday \in RawBirthdays : CallAddBirthday(i, birthday)

SpecBuild == Init /\ [][NextBuild]_vars

\* A book is built in memory, then saved and loaded: once a file is written
\* the book changes through load_data only.
NextPersist ==
    \/ NoFiles /\ NextBuild
    \/ \E filename \in Paths : \E fault \in FaultsAt(filename) : CallSave(filename, fault)
    \/ \E filename \in Paths : \E fault \in FaultsAt(filename) : CallLoad(filename, fault)
    \/ \E filename \in Paths, stream \in ForeignStreams : OverwriteFile(filename, stream)

SpecPersist == Init /\ [][NextPersist]_vars

(***************************************************************************)
(* main().  pc is "start" before main() runs, "loop" inside `while True`,  *)
(* "exited" after a `break` and "crashed" after the outer handler's        *)
(* `raise`.  One pass of the loop is one step: the command read (or the    *)
(* exception met) and everything done for it.                              *)
(***************************************************************************)
Saved == "Data saved successfully."
NotSaved == "Warning: Could not save data."

\* What main() prints after save_data(book, filename), lines 447-450.
SaveReport(ret) == IF ret = "True" THEN Saved ELSE NotSaved

\* The exits of the loop: the close and exit commands, Ctrl+C, the end of
\* input, and any other exception that leaves the inner try.
Exits == {"close", "exit", "KeyboardInterrupt", "EOFError", "Exception"}

\* The commands that only print.
Prints == {"hello", "phone", "all", "show-birthday", "birthdays", "invalid"}

\* main()'s loop with an EOFError handler that only breaks.
main_loop_eof_no_save(event, args, data, fs, fault, cut) ==
    LET s == save_data(data, DefaultFile, fs, fault, cut)
        run(r) == [pc |-> "loop", book |-> r.book, files |-> fs.files,
                   exc |-> "none", ret |-> r.ret]
    IN  CASE event \in {"close", "exit", "KeyboardInterrupt"} ->
                [pc |-> "exited", book |-> data, files |-> s.files,
                 exc |-> "none", ret |-> SaveReport(s.ret)]
          [] event = "add" -> run(add_contact(args, data))
          [] event = "change" -> run(change_contact(args, data))
          [] event = "add-birthday" -> run(add_birthday(args, data))
          [] event = "EOFError" ->
                [pc |-> "exited", book |-> data, files |-> fs.files,
                 exc |-> "none", ret |-> "Good bye!"]
          [] event = "Exception" ->
                [pc |-> "crashed", book |-> data, files |-> s.files,
                 exc |-> "Exception", ret |-> SaveReport(s.ret)]
          [] OTHER ->
                [pc |-> "loop", book |-> data, files |-> fs.files,
                 exc |-> "none", ret |-> "printed"]

\* One pass of main()'s loop on `event` (a command with its args, or an
\* exception): [pc, book, files, exc, ret].
main_loop(event, args, data, fs, fault, cut) ==
    LET s == save_data(data, DefaultFile, fs, fault, cut)
        run(r) == [pc |-> "loop", book |-> r.book, files |-> fs.files,
                   exc |-> "none", ret |-> r.ret]
    IN  CASE event \in {"close", "exit"} ->
                [pc |-> "exited", book |-> data, files |-> s.files,
                 exc |-> "none", ret |-> SaveReport(s.ret)]
          [] event = "add" -> run(add_contact(args, data))
          [] event = "change" -> run(change_contact(args, data))
          [] event = "add-birthday" -> run(add_birthday(args, data))
          [] event \in {"KeyboardInterrupt", "EOFError"} ->
                [pc |-> "exited", book |-> data, files |-> s.files,
                 exc |-> "none", ret |-> SaveReport(s.ret)]
          [] event = "Exception" ->
                [pc |-> "crashed", book |-> data, files |-> s.files,
                 exc |-> "Exception", ret |-> SaveReport(s.ret)]
          [] OTHER ->
                [pc |-> "loop", book |-> data, files |-> fs.files,
                 exc |-> "none", ret |-> "printed"]

\* main(), lines 430-431: book = load_data(filename)
MainStart ==
    /\ pc = "start"
    /\ \E fault \in Faults :
          LET r == load_data(DefaultFile, FS, fault)
          IN  /\ book' = r.book
              /\ result' = CalledIO("load_data", DefaultFile, fault, r.exc, r.ret)
    /\ pc' = "loop"
    /\ UNCHANGED <<files, dirs>>

\* The commands main() is given in the model.
MainArgs(event) ==
    CASE event = "add" -> {<<NameA>>} \cup {<<NameA, p>> : p \in {PhoneA, PhoneShort}}
      [] event = "change" -> {<<NameA, PhoneA, p>> : p \in {PhoneA, PhoneShort}}
      [] event = "add-birthday" -> {<<NameA, b>> : b \in {BirthdayA, BirthdayNoSuchDay}}
      [] OTHER -> {<<>>}

MainCommand(event, args) ==
    LET r == main_loop(event, args, book, FS, "none", 0)
    IN  /\ pc = "loop"
        /\ pc' = r.pc
        /\ book' = r.book
        /\ files' = r.files
        /\ result' = CalledIO(event, "", "none", r.exc, r.ret)
        /\ UNCHANGED dirs

MainExit(event, fault) ==
    \E cut \in CutsAt(fault, Dumps(book)) :
        LET r == main_loop(event, <<>>, book, FS, fault, cut)
        IN  /\ pc = "loop"
            /\ pc' = r.pc
            /\ book' = r.book
            /\ files' = r.files
            /\ result' = CalledIO(event, DefaultFile, fault, r.exc, r.ret)
            /\ UNCHANGED dirs

\* The program is run again: a new process, with nothing in memory.
MainRestart ==
    /\ pc \in {"exited", "crashed"}
    /\ pc' = "start"
    /\ book' = EmptyBook
    /\ result' = Called("restart", "none", "")
    /\ UNCHANGED <<files, dirs>>

NextMain ==
    \/ MainStart
    \/ \E event \in {"add", "change", "add-birthday"} \cup Prints :
          \E args \in MainArgs(event) : MainCommand(event, args)
    \/ \E event \in Exits, fault \in Faults : MainExit(event, fault)
    \/ MainRestart

SpecMain == Init /\ [][NextMain]_vars

(***************************************************************************)
(* Phone(value) on its own: the constructor is called on every string of   *)
(* at most MaxRawLen characters of PhoneChars, each call on the string of  *)
(* the call before with one more character.                                *)
(***************************************************************************)
MaxRawLen == 12

\* A digit and a separator.
PhoneChars == {"5", "-"}

\* The outcome of a call that returns a value: its argument, what it raised
\* and, when it returned, the value (in a tuple; <<>> is None or no value).
CalledQuery(op, arg, exc, val) ==
    [op |-> op, path |-> "", fault |-> "none", exc |-> exc, ret |-> "",
     arg |-> arg, val |-> val]

\* The string of the last Phone(value) call.
PhoneText == IF result.op = "Phone" THEN result.arg ELSE <<>>

\* p = Phone(value); p.value
CallPhone(value) ==
    LET p == Phone(value)
    IN  /\ result' = CalledQuery("Phone", value, p.exc,
                                 IF p.exc = "none" THEN <<p.value>> ELSE <<>>)
        /\ UNCHANGED book
        /\ Untouched

NextPhone ==
    \E c \in PhoneChars :
        /\ Len(PhoneText) < MaxRawLen
        /\ CallPhone(PhoneText \o <<c>>)

SpecPhone == Init /\ [][NextPhone]_vars

(***************************************************************************)
(* Birthdays and the calendar.  A date is [y, m, d]; today is what         *)
(* datetime.now().date() returns when a method is called.                  *)
(***************************************************************************)
\* The days before 1 January of year y (date.toordinal's count).
DaysBeforeYear(y) ==
    (y - 1) * 365 + ((y - 1) \div 4) - ((y - 1) \div 100) + ((y - 1) \div 400)

\* The days of year y before the first of month m.
RECURSIVE DaysBeforeMonth(_, _)
DaysBeforeMonth(y, m) ==
    IF m = 1 THEN 0 ELSE DaysBeforeMonth(y, m - 1) + DaysInMonth(y, m - 1)

\* date.toordinal(): 1 for 1 January of year 1.
toordinal(date) == DaysBeforeYear(date.y) + DaysBeforeMonth(date.y, date.m) + date.d

\* date.weekday(): 0 for Monday to 6 for Sunday.
weekday(date) == (toordinal(date) + 6) % 7

\* date + timedelta(days=1)
NextDay(date) ==
    IF date.d < DaysInMonth(date.y, date.m) THEN [date EXCEPT !.d = @ + 1]
    ELSE IF date.m < 12 THEN [y |-> date.y, m |-> date.m + 1, d |-> 1]
    ELSE [y |-> date.y + 1, m |-> 1, d |-> 1]

\* date + timedelta(days=n)
RECURSIVE AddDays(_, _)
AddDays(date, n) == IF n = 0 THEN date ELSE AddDays(NextDay(date), n - 1)

\* date.replace(year=y): ValueError when year y has no such day.
replace_year(date, y) ==
    IF date.d <= DaysInMonth(y, date.m)
    THEN [exc |-> "none", date |-> [date EXCEPT !.y = y]]
    ELSE [exc |-> "ValueError", date |-> date]

\* birthday_this_year, as days_to_birthday and get_upcoming_birthdays both
\* compute it: the date in today's year, or in the next year when that date
\* is before today.
birthday_this_year(date, today) ==
    LET this == replace_year(date, today.y)
    IN  IF this.exc # "none" THEN this
        ELSE IF toordinal(this.date) < toordinal(today)
        THEN replace_year(date, today.y + 1)
        ELSE this

\* Record.days_to_birthday: None without a birthday.
Record_days_to_birthday(rec, today) ==
    IF rec.birthday = <<>> THEN [exc |-> "none", val |-> <<>>]
    ELSE LET b == birthday_this_year(rec.birthday[1].date, today)
         IN  IF b.exc # "none" THEN [exc |-> b.exc, val |-> <<>>]
             ELSE [exc |-> "none", val |-> <<toordinal(b.date) - toordinal(today)>>]

\* The days ahead that get_upcoming_birthdays looks, and the weekday() of
\* Saturday.
UpcomingDays == 7
Saturday == 5

\* The body of the loop of get_upcoming_birthdays for one record: the
\* entries it appends, none or one.
upcoming_entry(rec, today) ==
    IF rec.birthday = <<>> THEN [exc |-> "none", list |-> <<>>]
    ELSE LET b == birthday_this_year(rec.birthday[1].date, today)
             days_until == toordinal(b.date) - toordinal(today)
             congratulation_date ==
                 IF weekday(b.date) >= Saturday
                 THEN AddDays(b.date, 7 - weekday(b.date))
                 ELSE b.date
         IN  IF b.exc # "none" THEN [exc |-> b.exc, list |-> <<>>]
             ELSE IF 0 <= days_until /\ days_until <= UpcomingDays
             THEN [exc |-> "none",
                   list |-> <<[name |-> rec.name,
                               congratulation_date |-> Strftime(congratulation_date)]>>]
             ELSE [exc |-> "none", list |-> <<>>]

\* The loop over self.data.values(), from record i on.
RECURSIVE upcoming_from(_, _, _)
upcoming_from(data, i, today) ==
    IF i > Len(data) THEN [exc |-> "none", list |-> <<>>]
    ELSE LET first == upcoming_entry(data[i].rec, today)
             rest == upcoming_from(data, i + 1, today)
         IN  IF first.exc # "none" THEN first
             ELSE IF rest.exc # "none" THEN rest
             ELSE [exc |-> "none", list |-> first.list \o rest.list]

\* list.sort(key=...) for a list whose keys are keys[1], keys[2], ...: the
\* elements in the order of their keys, and those of equal keys in the order
\* they had (the sort is stable).
StableSort(list, keys) ==
    LET rank(i) == 1 + Cardinality({j \in 1..Len(list) :
                          \/ keys[j] < keys[i]
                          \/ (keys[j] = keys[i] /\ j < i)})
    IN  [r \in 1..Len(list) |-> list[CHOOSE i \in 1..Len(list) : rank(i) = r]]

\* A sort whose key is the congratulation_date string itself: strings of
\* the form dd.mm.yyyy are in the order of the numbers ddmmyyyy.
sort_upcoming_by_string(list) ==
    StableSort(list, [i \in 1..Len(list) |->
                         ToInt(DigitsOnly(list[i].congratulation_date))])

\* upcoming_birthdays.sort(key=lambda x: datetime.strptime(...)): by the date
\* the congratulation_date string parses to.
sort_upcoming(list) ==
    StableSort(list, [i \in 1..Len(list) |->
                         toordinal(Strptime(list[i].congratulation_date).date)])

\* AddressBook.get_upcoming_birthdays: the sorted list, or the exception of
\* the first record that raises.
AddressBook_get_upcoming_birthdays(data, today) ==
    LET found == upcoming_from(data, 1, today)
    IN  IF found.exc # "none" THEN [exc |-> found.exc, list |-> <<>>]
        ELSE [exc |-> "none", list |-> sort_upcoming(found.list)]

\* The birthdays of the calendar model.
Birthday1606 == <<"1", "6", ".", "0", "6", ".", "1", "9", "9", "1">>
Birthday1006 == <<"1", "0", ".", "0", "6", ".", "1", "9", "8", "5">>
Birthday3112 == <<"3", "1", ".", "1", "2", ".", "1", "9", "9", "9">>
Birthday0201 == <<"0", "2", ".", "0", "1", ".", "2", "0", "0", "1">>
Birthday2902 == <<"2", "9", ".", "0", "2", ".", "2", "0", "0", "0">>

BirthdayDates ==
    {BirthdayA, Birthday1606, Birthday1006, Birthday3112, Birthday0201, Birthday2902}

\* The days the methods are called on: MaxDayOffset days on from a Saturday
\* in June, from the last week of a year, and from the end of February of
\* a year with 28 days and of one with 29.
MaxDayOffset == 3

FirstDays ==
    {[y |-> 2024, m |-> 6, d |-> 8], [y |-> 2024, m |-> 12, d |-> 26],
     [y |-> 2023, m |-> 2, d |-> 26], [y |-> 2024, m |-> 2, d |-> 27]}

Todays == {AddDays(first, n) : first \in FirstDays, n \in 0..MaxDayOffset}

\* record.days_to_birthday() on the day today
CallDaysToBirthday(i, today) ==
    LET r == Record_days_to_birthday(book[i].rec, today)
    IN  /\ result' = CalledQuery("days_to_birthday", [i |-> i, today |-> today],
                                 r.exc, r.val)
        /\ UNCHANGED book
        /\ Untouched

\* book.get_upcoming_birthdays() on the day today
CallGetUpcomingBirthdays(today) ==
    LET r == AddressBook_get_upcoming_birthdays(book, today)
    IN  /\ result' = CalledQuery("get_upcoming_birthdays", [today |-> today],
                                 r.exc, r.list)
        /\ UNCHANGED book
        /\ Untouched

NextBirthdays ==
    \/ \E name \in TokNames : CallAddRecord(name)
    \/ \E i \in 1..Len(book), birthday \in BirthdayDates : CallAddBirthday(i, birthday)
    \/ \E i \in 1..Len(book), today \in Todays : CallDaysToBirthday(i, today)
    \/ \E today \in Todays : CallGetUpcomingBirthdays(today)

SpecBirthdays == Init /\ [][NextBirthdays]_vars

(***************************************************************************)
(* The properties.                                                         *)
(***************************************************************************)
Keys(data) == {data[i].key : i \in 1..Len(data)}

\* Field-by-field equality of two stores: the same names, and per name the
\* same phones in the same order and the same birthday date.
SameStore(x, y) ==
    /\ Keys(x) = Keys(y)
    /\ \A i \in 1..Len(x) : \A j \in 1..Len(y) :
          x[i].key = y[j].key =>
             /\ x[i].rec.name = y[j].rec.name
             /\ x[i].rec.phones = y[j].rec.phones
             /\ Len(x[i].rec.birthday) = Len(y[j].rec.birthday)
             /\ x[i].rec.birthday # <<>> =>
                    x[i].rec.birthday[1].date = y[j].rec.birthday[1].date

\* C1: a successful save_data(S, f) followed by load_data(f) returns a store
\* with the names, the ordered phone lists and the birthday dates of S.
C1_RoundTrip ==
    [][(/\ result.op = "save_data" /\ result.ret = "True"
        /\ result'.op = "load_data" /\ result'.path = result.path
        /\ result'.fault = "none")
          => (result'.ret = "loaded" /\ SameStore(book', book))]_vars

\* A store of several contacts, each with several phones and a birthday,
\* came back from load_data.
C1_Witness ==
    /\ result.op = "load_data" /\ result.ret = "loaded"
    /\ Len(book) >= 2
    /\ \A i \in 1..Len(book) :
          Len(book[i].rec.phones) >= 2 /\ book[i].rec.birthday # <<>>

\* What load_data returns for `filename` in the file system fs.
Stored(filename, fs) == load_data(filename, fs, "none")

\* C2: when a file holds a saved store (here one with contacts) and a later
\* save_data to it fails, a load of the file still returns that store.
C2_FailedSaveKeepsFile ==
    [][(/\ result'.op = "save_data" /\ result'.ret = "False"
        /\ Stored(result'.path, FS).ret = "loaded"
        /\ Stored(result'.path, FS).book # EmptyBook)
          => LET after == Stored(result'.path, [files |-> files', dirs |-> dirs'])
             IN  /\ after.ret = "loaded"
                 /\ SameStore(after.book, Stored(result'.path, FS).book)]_vars

\* C3: a rejected add, change or add-birthday command leaves the whole
\* store as it was.
C3_RejectedCommandKeepsStore ==
    [][(result'.op \in {"add", "change", "add-birthday"} /\ result'.ret \in FailureMessages)
          => book' = book]_vars

\* C4: save_data raises nothing: it returns True when the file was written
\* and False on every failure, and the store in memory is as before.
C4_SaveNeverRaises ==
    [][result'.op = "save_data"
          => /\ result'.exc = "none"
             /\ result'.ret = (IF result'.fault = "none" /\ ParentDir(result'.path) \in dirs
                               THEN "True" ELSE "False")
             /\ result'.ret = "True" => files'[result'.path] = <<Dumps(book)>>
             /\ book' = book]_vars

\* save_data met an exception that is neither an OSError nor a PickleError,
\* and returned False.
C4_Witness ==
    /\ result.op = "save_data" /\ result.fault = "other"
    /\ result.exc = "none" /\ result.ret = "False"
    /\ book # EmptyBook

\* C5: save_data creates the missing parent directories of the file, so a
\* save that meets no I/O fault succeeds and the file is there.
C5_SaveCreatesParentDirs ==
    (result.op = "save_data" /\ result.fault = "none")
        => /\ result.ret = "True"
           /\ ParentDir(result.path) \in dirs
           /\ files[result.path] # <<>>

\* C6: load_data on a path with no file returns an empty store, raises
\* nothing and reports nothing.
C6_LoadMissingFile ==
    (result.op = "load_data" /\ files[result.path] = <<>>)
        => /\ result.exc = "none"
           /\ result.ret = "first run"
           /\ book = EmptyBook

\* load_data was called on the default path with no file there.
C6_Witness ==
    /\ result.op = "load_data" /\ result.path = DefaultFile
    /\ files[DefaultFile] = <<>>
    /\ book = EmptyBook

\* C7: load_data on a file that cannot be read, or that is not the complete
\* pickle of an AddressBook, returns an empty store (never a part of one)
\* and raises nothing.
C7_LoadBadFile ==
    (/\ result.op = "load_data" /\ files[result.path] # <<>>
     /\ \/ result.fault # "none"
        \/ Loads(files[result.path][1]).exc # "none"
        \/ ~Loads(files[result.path][1]).isBook
        \/ files[result.path] # <<Dumps(book)>>)
        => /\ result.exc = "none"
           /\ result.ret \in {"error", "warning"}
           /\ book = EmptyBook

\* load_data read a file that holds the first half of a saved store.
C7_Witness ==
    /\ result.op = "load_data" /\ result.fault = "none" /\ result.ret = "error"
    /\ files[result.path] # <<>>
    /\ Len(files[result.path][1]) >= 4
    /\ book = EmptyBook

\* C8: main() leaves its loop only after save_data was called on the book,
\* whichever exit it takes, and it leaves also when the save failed.
C8_SaveBeforeExit ==
    /\ pc \in {"exited", "crashed"}
          => /\ result.op \in Exits
             /\ result.ret \in {Saved, NotSaved}
             /\ result.ret = Saved => files[DefaultFile] = <<Dumps(book)>>
             /\ result.fault # "none" => result.ret = NotSaved
    /\ result.op \in Exits => pc \in {"exited", "crashed"}

\* main() was ended by the end of input, the save failed, and it exited.
C8_Witness ==
    /\ pc = "exited" /\ result.op = "EOFError"
    /\ result.ret = NotSaved
    /\ book # EmptyBook

\* C9: no Record holds two phones with the same digits.
C9_NoDuplicatePhones ==
    \A e \in 1..Len(book) :
        \A i, j \in 1..Len(book[e].rec.phones) :
            i # j => DigitsOnly(book[e].rec.phones[i]) # DigitsOnly(book[e].rec.phones[j])

\* C10: every key of the AddressBook is the name of the Record stored under
\* it, and no key occurs twice.
C10_KeysAreNames ==
    /\ \A i \in 1..Len(book) : book[i].key = book[i].rec.name
    /\ \A i, j \in 1..Len(book) : i # j => book[i].key # book[j].key

\* Two contacts are in the book, one of them added by the add command.
C10_Witness ==
    /\ Len(book) = 2
    /\ result.op = "add" /\ result.ret = "Contact added."

\* C11: add_record(r) on a book with no Record named r.name inserts r, so
\* that find(r.name) returns it and the other Records stay; add_record(r) on
\* a book that has the name fails and leaves the book as it was.
C11_AddRecord ==
    /\ \A name \in RawNames, phones \in {<<>>, <<PhoneA>>} :
          LET r == Record(name)
              rec == [r.rec EXCEPT !.phones = phones]
              a == AddressBook_add_record(book, rec)
          IN  r.exc = "none" =>
                 IF rec.name \notin Keys(book)
                 THEN /\ a.exc = "none"
                      /\ AddressBook_find(a.book, rec.name) = <<rec>>
                      /\ \A k \in Keys(book) :
                            AddressBook_find(a.book, k) = AddressBook_find(book, k)
                 ELSE a.exc = "ValueError" /\ a.book = book
    /\ (result.op = "add_record" /\ result.exc = "none") =>
          /\ book # EmptyBook
          /\ AddressBook_find(book, book[Len(book)].rec.name) = <<book[Len(book)].rec>>

\* add_record was refused on a book that holds two contacts with phones.
C11_Witness ==
    /\ result.op = "add_record" /\ result.exc = "ValueError"
    /\ Len(book) = 2
    /\ \A i \in 1..Len(book) : book[i].rec.phones # <<>>

\* The old values edit_phone is tried with: the valid phones, and one that
\* is never stored.
OldPhones == ValidPhones \cup {PhoneShort}

\* C12: edit_phone(old, new) fails and leaves the phone list as it was when
\* new is invalid or old is not a stored value; otherwise the first phone
\* equal to old becomes new in place, and nothing else changes.
C12_EditPhone ==
    \A e \in 1..Len(book) : \A old \in OldPhones, new \in RawPhones :
        LET rec == book[e].rec
            r == Record_edit_phone(rec, old, new)
            digits == Cardinality({k \in 1..Len(new) : IsDigit(new[k])})
            stored == {k \in 1..Len(rec.phones) : rec.phones[k] = old}
        IN  IF digits # 10 \/ stored = {}
            THEN r.exc = "ValueError" /\ r.rec = rec
            ELSE LET first == CHOOSE k \in stored : \A j \in stored : k <= j
                 IN  /\ r.exc = "none"
                     /\ Len(r.rec.phones) = Len(rec.phones)
                     /\ r.rec.phones[first] = new
                     /\ \A k \in 1..Len(rec.phones) :
                           k # first => r.rec.phones[k] = rec.phones[k]
                     /\ r.rec.name = rec.name
                     /\ r.rec.birthday = rec.birthday

\* edit_phone changed the first of two equal phones of a Record.
C12_Witness ==
    /\ result.op = "edit_phone" /\ result.exc = "none"
    /\ \E e \in 1..Len(book) : book[e].rec.phones = <<PhoneADashed, PhoneA>>

\* C17: every phone a Record stores has exactly 10 digits.
C17_StoredPhonesValid ==
    \A e \in 1..Len(book) : \A k \in 1..Len(book[e].rec.phones) :
        Cardinality({c \in 1..Len(book[e].rec.phones[k]) :
                        IsDigit(book[e].rec.phones[k][c])}) = 10

\* edit_phone refused an invalid new value on a Record that has phones.
C17_Witness ==
    /\ result.op = "edit_phone" /\ result.exc = "ValueError"
    /\ \E e \in 1..Len(book) : Len(book[e].rec.phones) = MaxPhones

\* C15: Phone(value) succeeds exactly when value holds exactly 10 digit
\* characters, whatever else it holds, and the Phone then keeps value as it
\* was given; otherwise it raises ValueError.
C15_ValidatePhone ==
    result.op = "Phone" =>
        LET digits == Cardinality({k \in 1..Len(result.arg) : IsDigit(result.arg[k])})
        IN  IF digits = 10
            THEN result.exc = "none" /\ result.val = <<result.arg>>
            ELSE result.exc = "ValueError" /\ result.val = <<>>

\* A Phone was made of 10 digits with separators between them.
C15_Witness ==
    /\ result.op = "Phone" /\ result.exc = "none"
    /\ Len(result.arg) = 12
    /\ result.arg[4] = "-" /\ result.arg[8] = "-"
    /\ result.val = <<result.arg>>

\* The next day on or after today that has the day and the month of date.
NextOccurrence(date, today) ==
    LET Falls(y) == /\ date.d <= DaysInMonth(y, date.m)
                    /\ toordinal([date EXCEPT !.y = y]) >= toordinal(today)
        year == CHOOSE y \in today.y..(today.y + 8) :
                    Falls(y) /\ \A z \in today.y..(y - 1) : ~Falls(z)
    IN  [date EXCEPT !.y = year]

\* The days from today to that day.
DaysToNext(date, today) == toordinal(NextOccurrence(date, today)) - toordinal(today)

\* The day itself from Monday to Friday, the Monday after it otherwise.
CongratulationDay(date) ==
    AddDays(date, CHOOSE n \in 0..2 :
                      /\ weekday(AddDays(date, n)) < Saturday
                      /\ \A k \in 0..(n - 1) : weekday(AddDays(date, k)) >= Saturday)

\* C13: get_upcoming_birthdays returns an entry for a Record exactly when the
\* Record has a birthday whose next occurrence is 0 to 7 days after today,
\* and the entry's date is that occurrence, or the Monday after it when it
\* falls on a Saturday or a Sunday.
C13_UpcomingEntries ==
    result.op = "get_upcoming_birthdays" =>
        LET today == result.arg.today
            list == result.val
        IN  /\ result.exc = "none"
            /\ \A k \in 1..Len(list) : list[k].name \in Keys(book)
            /\ \A e \in 1..Len(book) :
                  LET rec == book[e].rec
                      mine == {k \in 1..Len(list) : list[k].name = rec.name}
                      due == /\ rec.birthday # <<>>
                             /\ DaysToNext(rec.birthday[1].date, today) \in 0..7
                  IN  IF due
                      THEN /\ Cardinality(mine) = 1
                           /\ \A k \in mine :
                                 list[k].congratulation_date =
                                    Strftime(CongratulationDay(
                                       NextOccurrence(rec.birthday[1].date, today)))
                      ELSE mine = {}

\* C14: days_to_birthday returns None for a Record without a birthday, and
\* otherwise the number of days, 0 or more, from today to the next day with
\* the birthday's day and month, for a birthday on 29.02 as for any other.
C14_DaysToBirthday ==
    result.op = "days_to_birthday" =>
        LET today == result.arg.today
            rec == book[result.arg.i].rec
        IN  /\ result.exc = "none"
            /\ IF rec.birthday = <<>> THEN result.val = <<>>
               ELSE /\ Len(result.val) = 1
                    /\ result.val[1] >= 0
                    /\ result.val[1] = DaysToNext(rec.birthday[1].date, today)

\* C16: the list get_upcoming_birthdays returns is in ascending order of the
\* congratulation dates as days of the calendar, and entries of the same
\* date are in the order their Records were added to the book.
C16_SortedByDate ==
    (result.op = "get_upcoming_birthdays" /\ result.exc = "none") =>
        \A i, j \in 1..Len(result.val) :
            i < j =>
               LET a == Strptime(result.val[i].congratulation_date).date
                   b == Strptime(result.val[j].congratulation_date).date
               IN  /\ <<a.y, a.m, a.d>> # <<b.y, b.m, b.d>> =>
                         \/ a.y < b.y
                         \/ (a.y = b.y /\ a.m < b.m)
                         \/ (a.y = b.y /\ a.m = b.m /\ a.d < b.d)
                   /\ a = b => KeyIndex(book, result.val[i].name)
                                  < KeyIndex(book, result.val[j].name)

\* A list of two dates on the two sides of a new year, the Record of the
\* later date added to the book first.
C16_Witness ==
    /\ result.op = "get_upcoming_birthdays" /\ result.exc = "none"
    /\ Len(result.val) = 2
    /\ Strptime(result.val[1].congratulation_date).date.y
          < Strptime(result.val[2].congratulation_date).date.y
    /\ KeyIndex(book, result.val[1].name) > KeyIndex(book, result.val[2].name)

====
